---- MODULE Spec2Model ----
(***************************************************************************)
(* Model of jetbrains-http-to-postman: convertHTTPToPostman, the line      *)
(* classifier and request builder, parseURL and the document assembler.    *)
(*                                                                         *)
(* Text is modelled character by character: a Go string is a sequence of   *)
(* one-character strings, "" is << >>.  The input file is a sequence of    *)
(* raw (untrimmed) lines.                                                  *)
(***************************************************************************)
EXTENDS Integers, Sequences, FiniteSets, TLC

VARIABLES
    input,      \* the lines of the input file, as bufio.Scanner yields them
    readable,   \* whether os.Open(inputFile) succeeds
    env,        \* result of loadEnvironment: EnvMissing or the "dev" table
    pc,         \* position in convertHTTPToPostman
    pos,        \* number of lines the second scanner has consumed
    st,         \* the locals of convertHTTPToPostman
    out         \* the written collection (Items, Variable), NoOutput before

vars == <<input, readable, env, pc, pos, st, out>>

----------------------------------------------------------------------------
(* package strings and unicode                                             *)

\* unicode.IsSpace / regexp \s, over the blanks the modelled text can hold
IsSpace(c) == c \in {" ", "\t", "\n", "\r"}

\* regexp \w
IsWord(c) ==
    c \in {"a","b","c","d","e","f","g","h","i","j","k","l","m","n","o","p","q",
           "r","s","t","u","v","w","x","y","z",
           "A","B","C","D","E","F","G","H","I","J","K","L","M","N","O","P","Q",
           "R","S","T","U","V","W","X","Y","Z",
           "0","1","2","3","4","5","6","7","8","9","_"}

Min(S) == CHOOSE x \in S : \A y \in S : x <= y

\* the least i in lo..hi with P(i), hi + 1 when there is none
FirstIn(lo, hi, P(_)) ==
    IF \E i \in lo..hi : P(i)
    THEN CHOOSE i \in lo..hi : P(i) /\ \A j \in lo..(i - 1) : ~P(j)
    ELSE hi + 1

\* the greatest i in lo..hi with P(i), lo - 1 when there is none
LastIn(lo, hi, P(_)) ==
    IF \E i \in lo..hi : P(i)
    THEN CHOOSE i \in lo..hi : P(i) /\ \A j \in (i + 1)..hi : ~P(j)
    ELSE lo - 1

\* s[i:]
Tail2(s, i) == IF i < 1 THEN s ELSE SubSeq(s, i, Len(s))

\* smallest j >= i that is past the end of s or holds no blank
SkipSpaces(s, i) == FirstIn(i, Len(s), LAMBDA j : ~IsSpace(s[j]))

\* smallest j >= i that is past the end of s or holds no \w character
SkipWord(s, i) == FirstIn(i, Len(s), LAMBDA j : ~IsWord(s[j]))

\* strings.TrimSpace
TrimSpace(s) ==
    IF s = << >> THEN s
    ELSE IF ~IsSpace(s[1]) /\ ~IsSpace(s[Len(s)]) THEN s
    ELSE SubSeq(s, SkipSpaces(s, 1), LastIn(1, Len(s), LAMBDA j : ~IsSpace(s[j])))

\* s[i:i+len(p)] == p
MatchAt(s, i, p) ==
    /\ i >= 1
    /\ i + Len(p) - 1 <= Len(s)
    /\ \A k \in 1..Len(p) : s[i + k - 1] = p[k]

\* strings.HasPrefix
HasPrefix(s, p) == MatchAt(s, 1, p)

\* strings.HasSuffix
HasSuffix(s, p) == MatchAt(s, Len(s) - Len(p) + 1, p)

\* strings.Index, 1-based; 0 when p does not occur
Index(s, p) ==
    LET i == FirstIn(1, Len(s), LAMBDA j : MatchAt(s, j, p))
    IN  IF i > Len(s) THEN 0 ELSE i

\* strings.Contains
Contains(s, p) == \E i \in 1..Len(s) : MatchAt(s, i, p)

\* strings.Split(s, sep), sep not empty
RECURSIVE Split(_, _)
Split(s, sep) ==
    LET i == Index(s, sep)
    IN  IF i = 0 THEN <<s>>
        ELSE <<SubSeq(s, 1, i - 1)>> \o Split(Tail2(s, i + Len(sep)), sep)

\* strings.SplitN(s, sep, 2)
SplitN2(s, sep) ==
    LET i == Index(s, sep)
    IN  IF i = 0 THEN <<s>>
        ELSE <<SubSeq(s, 1, i - 1), Tail2(s, i + Len(sep))>>

\* strings.Fields
RECURSIVE Fields(_)
Fields(s) ==
    LET a == SkipSpaces(s, 1)
    IN  IF a > Len(s) THEN << >>
        ELSE LET b == FirstIn(a, Len(s), LAMBDA j : IsSpace(s[j]))
             IN  <<SubSeq(s, a, b - 1)>> \o Fields(Tail2(s, b))

\* strings.ReplaceAll(s, old, new), old not empty
RECURSIVE ReplaceAll(_, _, _)
ReplaceAll(s, old, new) ==
    LET i == Index(s, old)
    IN  IF i = 0 THEN s
        ELSE SubSeq(s, 1, i - 1) \o new \o ReplaceAll(Tail2(s, i + Len(old)), old, new)

\* the decimal digits of n, as fmt.Sprintf("%d", n) writes them
RECURSIVE Itoa(_)
Itoa(n) ==
    LET d == <<"0","1","2","3","4","5","6","7","8","9">>[(n % 10) + 1]
    IN  IF n < 10 THEN <<d>> ELSE Itoa(n \div 10) \o <<d>>

\* map[string]string: a function from keys to values; m[k] = v
MapSet(m, k, v) == [x \in (DOMAIN m) \cup {k} |-> IF x = k THEN v ELSE m[x]]

EmptyMap == [x \in {} |-> << >>]

----------------------------------------------------------------------------
(* The literal tokens of the source                                        *)

SepTok == <<"#","#","#">>
HashTok == <<"#">>
LBrace == <<"{">>
RBrace == <<"}">>
Colon == <<":">>
SchemeSep == <<":","/","/">>
QMark == <<"?">>
Slash == <<"/">>
Dot == <<".">>
Amp == <<"&">>
EqTok == <<"=">>
AtTok == <<"@">>
LtTok == <<"<">>
ScriptOpen == <<"{","%">>
ScriptClose == <<"%","}">>
DescTok == <<"/","/">>
VarOpen == <<"{","{">>
VarClose == <<"}","}">>
Quote == <<"\"">>
NL == <<"\n">>
GroupTok == <<"@","g","r","o","u","p","_","n","a","m","e">>
NameTok == <<"@","n","a","m","e">>
BaseUrl1 == <<"{","{","b","a","s","e","U","r","l","}","}">>
BaseUrl2 == <<"{","{","b","a","s","e","U","R","L","}","}">>
SetOpen ==
    <<"r","e","q","u","e","s","t",".","v","a","r","i","a","b","l","e","s",".","s","e","t","(",
      "\"">>
SetMid == <<"\"",",">>
SetClose == <<"\"",")">>
RequestDash == <<"r","e","q","u","e","s","t","-">>
GET == <<"G","E","T">>
PUT == <<"P","U","T">>
POST == <<"P","O","S","T">>
DELETE == <<"D","E","L","E","T","E">>
OPTIONS == <<"O","P","T","I","O","N","S">>

----------------------------------------------------------------------------
(* The regular expressions.  Each matcher returns [ok, g1, g2]: whether    *)
(* the line matches and the capture groups.  Lines reach them trimmed, so  *)
(* a line never ends in a blank.                                           *)

\* httpMethodRegex  ^(GET|PUT|POST|DELETE|OPTIONS)\s+.+
httpMethodRegex(line) ==
    \E v \in {GET, PUT, POST, DELETE, OPTIONS} :
        /\ HasPrefix(line, v)
        /\ Len(line) >= Len(v) + 2
        /\ IsSpace(line[Len(v) + 1])

\* groupRegex  ^#\s*@group_name\s+(.+)$ : the index where group 1 starts,
\* 0 when the line does not match
groupRegexAt(line) ==
    IF ~HasPrefix(line, HashTok) THEN 0
    ELSE LET j == SkipSpaces(line, 2)
             k == j + Len(GroupTok)
             m == SkipSpaces(line, k)
         IN  IF MatchAt(line, j, GroupTok) /\ m > k /\ m <= Len(line) THEN m ELSE 0

groupRegex(line) ==
    [ok |-> groupRegexAt(line) # 0, g1 |-> Tail2(line, groupRegexAt(line)), g2 |-> << >>]

\* nameRegex  ^#\s*@name\s+(\w+)$ : the index where group 1 starts, 0 when
\* the line does not match
nameRegexAt(line) ==
    IF ~HasPrefix(line, HashTok) THEN 0
    ELSE LET j == SkipSpaces(line, 2)
             k == j + Len(NameTok)
             m == SkipSpaces(line, k)
         IN  IF /\ MatchAt(line, j, NameTok)
                /\ m > k
                /\ m <= Len(line)
                /\ SkipWord(line, m) = Len(line) + 1
             THEN m ELSE 0

nameRegex(line) ==
    [ok |-> nameRegexAt(line) # 0, g1 |-> Tail2(line, nameRegexAt(line)), g2 |-> << >>]

\* descriptionRegex  ^//\s*(.+)$ : the index where group 1 starts, 0 when
\* the line does not match
descriptionRegexAt(line) ==
    IF ~HasPrefix(line, DescTok) THEN 0
    ELSE LET m == SkipSpaces(line, Len(DescTok) + 1)
         IN  IF m <= Len(line) THEN m ELSE 0

descriptionRegex(line) ==
    [ok |-> descriptionRegexAt(line) # 0, g1 |-> Tail2(line, descriptionRegexAt(line)),
     g2 |-> << >>]

\* localVariableRegex  ^@(\w+)\s*=\s*(.+)$
localVariableRegex(line) ==
    IF ~HasPrefix(line, AtTok) THEN [ok |-> FALSE, g1 |-> << >>, g2 |-> << >>]
    ELSE LET e == SkipWord(line, 2)
             j == SkipSpaces(line, e)
             m == SkipSpaces(line, j + 1)
         IN  [ok |-> e > 2 /\ MatchAt(line, j, EqTok) /\ m <= Len(line),
              g1 |-> SubSeq(line, 2, e - 1),
              g2 |-> Tail2(line, m)]

\* index of the first '"' at or after i, Len(s) + 1 when there is none
NextQuote(s, i) == FirstIn(i, Len(s), LAMBDA j : s[j] = "\"")

\* requestVariableRegex matched with its first character at i
requestVariableAt(line, i) ==
    LET a == i + Len(SetOpen)
        b == NextQuote(line, a)
        c == SkipSpaces(line, b + Len(SetMid))
        d == c + 1
        e == NextQuote(line, d)
    IN  [ok |-> /\ MatchAt(line, i, SetOpen)
                /\ b > a
                /\ MatchAt(line, b, SetMid)
                /\ MatchAt(line, c, Quote)
                /\ e > d
                /\ MatchAt(line, e, SetClose),
         g1 |-> SubSeq(line, a, b - 1),
         g2 |-> SubSeq(line, d, e - 1)]

\* requestVariableRegex  request\.variables\.set\("([^"]+)",\s*"([^"]+)"\)
\* (unanchored: the leftmost match)
requestVariableRegex(line) ==
    LET i == FirstIn(1, Len(line), LAMBDA j : requestVariableAt(line, j).ok)
    IN  IF i > Len(line) THEN [ok |-> FALSE, g1 |-> << >>, g2 |-> << >>]
        ELSE requestVariableAt(line, i)

\* varRegex  \{\{(\w+)\}\}  matched with its first character at i
VarMatchAt(s, i) ==
    LET e == SkipWord(s, i + 2)
    IN  MatchAt(s, i, VarOpen) /\ e > i + 2 /\ MatchAt(s, e, VarClose)

\* varRegex.FindAllStringSubmatch(s, -1) from index i on: the matches left
\* to right, none overlapping another, each as [full, name]
RECURSIVE FindAllVars(_, _)
FindAllVars(s, i) ==
    LET k == FirstIn(i, Len(s), LAMBDA j : VarMatchAt(s, j))
    IN  IF k > Len(s) THEN << >>
        ELSE LET e == SkipWord(s, k + 2)
             IN  <<[full |-> SubSeq(s, k, e + 1), name |-> SubSeq(s, k + 2, e - 1)]>>
                 \o FindAllVars(s, e + 2)

\* a prescan that stops at the first reference
detectVariablesOne(text) ==
    LET matches == FindAllVars(text, 1)
    IN  IF matches = << >> THEN << >> ELSE <<matches[1].name>>

\* detectVariables
detectVariables(text) ==
    LET matches == FindAllVars(text, 1)
    IN  [k \in 1..Len(matches) |-> matches[k].name]

----------------------------------------------------------------------------
(* parseURL                                                                *)

\* URL{} without its Query, which the scan keeps in the local `query`
EmptyURL == [Raw |-> << >>, Protocol |-> << >>, Host |-> << >>, Path |-> << >>,
             Variable |-> << >>]

\* the value parseURL records for path variable varName
PathVarValue(varName, localVars, requestVars) ==
    LET fromRequest == IF varName \in DOMAIN requestVars
                       THEN requestVars[varName] ELSE << >>
    IN  IF fromRequest = << >>
        THEN IF varName \in DOMAIN localVars THEN localVars[varName] ELSE << >>
        ELSE fromRequest

\* the inner loop over the matches of one path segment: the segment with
\* each {{name}} replaced by :name
RECURSIVE ConvertPart(_, _)
ConvertPart(part, matches) ==
    IF matches = << >> THEN part
    ELSE ConvertPart(ReplaceAll(part, Head(matches).full, Colon \o Head(matches).name),
                     Tail(matches))

\* the loop over parts[1:] of the base-URL branch: [path, variables]
RECURSIVE BasePathLoop(_, _, _)
BasePathLoop(parts, localVars, requestVars) ==
    IF parts = << >> THEN [path |-> << >>, variables |-> << >>]
    ELSE LET part    == Head(parts)
             rest    == BasePathLoop(Tail(parts), localVars, requestVars)
             matches == FindAllVars(part, 1)
         IN  IF part = << >> THEN rest
             ELSE [path |-> <<ConvertPart(part, matches)>> \o rest.path,
                   variables |->
                       [k \in 1..Len(matches) |->
                           [Key |-> matches[k].name,
                            Value |-> PathVarValue(matches[k].name, localVars, requestVars),
                            Type |-> "string"]]
                       \o rest.variables]

\* the branch of parseURL for a raw URL holding {{baseUrl}} or {{baseURL}}
parseURLBase(rawURL, url, localVars, requestVars) ==
    LET pathPart == IF Contains(rawURL, QMark) THEN Split(rawURL, QMark)[1] ELSE rawURL
        parts    == Split(pathPart, Slash)
        loop     == BasePathLoop(Tail(parts), localVars, requestVars)
        withHost == [url EXCEPT !.Host = <<BaseUrl1>>]
        withPath == IF Contains(pathPart, Slash)
                    THEN [withHost EXCEPT !.Path = loop.path]
                    ELSE withHost
    IN  IF Contains(pathPart, Slash) /\ Len(loop.variables) > 0
        THEN [withPath EXCEPT !.Variable = loop.variables]
        ELSE withPath

\* the standard branch of parseURL
parseURLStandard(rawURL, url) ==
    IF Contains(rawURL, SchemeSep)
    THEN LET protocolParts == Split(rawURL, SchemeSep)
             rem      == protocolParts[2]
             cleanURL == IF Contains(rem, QMark) THEN Split(rem, QMark)[1] ELSE rem
             urlParts == Split(cleanURL, Slash)
         IN  IF Contains(cleanURL, Slash)
             THEN [url EXCEPT !.Protocol = protocolParts[1],
                              !.Host = Split(urlParts[1], Dot),
                              !.Path = Tail(urlParts)]
             ELSE [url EXCEPT !.Protocol = protocolParts[1],
                              !.Host = Split(cleanURL, Dot)]
    ELSE [url EXCEPT !.Host = Split(Split(rawURL, Slash)[1], Dot)]

\* parseURL(rawURL, &url, localVars, requestVars): the URL record it leaves
parseURL(rawURL, url, localVars, requestVars) ==
    IF Contains(rawURL, BaseUrl1) \/ Contains(rawURL, BaseUrl2)
    THEN parseURLBase(rawURL, url, localVars, requestVars)
    ELSE parseURLStandard(rawURL, url)

\* the query loop of the method case: the QueryParams one raw URL adds
RECURSIVE QueryLoop(_)
QueryLoop(params) ==
    IF params = << >> THEN << >>
    ELSE LET param == Head(params)
             kv    == Split(param, EqTok)
         IN  IF Contains(param, EqTok)
             THEN <<[Key |-> TrimSpace(kv[1]), Value |-> TrimSpace(kv[2])]>>
                  \o QueryLoop(Tail(params))
             ELSE QueryLoop(Tail(params))

\* "Parse query parameters": what the method case appends to query
ParseQuery(rawURL) ==
    IF Contains(rawURL, QMark)
    THEN QueryLoop(Split(Split(rawURL, QMark)[2], Amp))
    ELSE << >>

----------------------------------------------------------------------------
(* The data model                                                          *)

EmptyBody == [Mode |-> "", Raw |-> << >>, Options |-> FALSE]

\* Request{} : the request payload of an item that is a folder
EmptyRequest ==
    [Method |-> << >>, Header |-> << >>, Body |-> EmptyBody,
     URL |-> [Raw |-> << >>, Protocol |-> << >>, Host |-> << >>, Path |-> << >>,
              Query |-> << >>, Variable |-> << >>]]

\* var currentGroup *Group = nil
NoGroup == [set |-> FALSE, Name |-> << >>, Items |-> << >>]

\* Environment: err is loadEnvironment's error, dev is env["dev"] (hasDev: it is
\* not nil)
EnvMissing == [err |-> TRUE, hasDev |-> FALSE, dev |-> EmptyMap]

NoOutput == [status |-> "none", Items |-> << >>, Variable |-> << >>, errVars |-> << >>]

\* a line longer than the buffer of bufio.Scanner (bufio.MaxScanTokenSize):
\* Scan() returns false at it and Err() is bufio.ErrTooLong; its text is never
\* delivered
LongLine == <<"(line longer than bufio.MaxScanTokenSize)">>

\* the lines a bufio.Scanner delivers before Scan() returns false
Delivered(lines) ==
    SubSeq(lines, 1, FirstIn(1, Len(lines), LAMBDA i : lines[i] = LongLine) - 1)

\* the locals of convertHTTPToPostman as declared before the scan loop;
\* `item` and the unsealed fields of `req` are empty at every loop head and
\* are built inside the seal
InitialLocals ==
    [allVariables |-> << >>,
     localVariables |-> EmptyMap,
     groups |-> << >>,
     currentGroup |-> NoGroup,
     allItems |-> << >>,
     hasGroupSeparators |-> FALSE,
     method |-> << >>,
     headers |-> << >>,
     body |-> EmptyBody,
     url |-> EmptyURL,
     query |-> << >>,
     data |-> << >>,
     count |-> 0,
     startedJSON |-> FALSE,
     currentRequestName |-> << >>,
     currentRequestDescription |-> << >>,
     requestVariables |-> EmptyMap,
     inRequestScript |-> FALSE]

\* a reset that forgets to clear the method and the URL
resetRequestKeepMethod(s) ==
    [s EXCEPT !.headers = << >>,
              !.body = EmptyBody,
              !.query = << >>,
              !.data = << >>,
              !.startedJSON = FALSE,
              !.currentRequestName = << >>,
              !.requestVariables = EmptyMap,
              !.inRequestScript = FALSE]

\* resetRequest
resetRequest(s) ==
    [s EXCEPT !.method = << >>,
              !.headers = << >>,
              !.body = EmptyBody,
              !.url = EmptyURL,
              !.query = << >>,
              !.data = << >>,
              !.startedJSON = FALSE,
              !.currentRequestName = << >>,
              !.requestVariables = EmptyMap,
              !.inRequestScript = FALSE]

\* the item both seals build from the accumulators
\* ("req.Header = headers ... item.Description = currentRequestDescription")
SealedItem(s, name) ==
    [Name |-> name,
     Description |-> s.currentRequestDescription,
     Item |-> << >>,
     Request |-> [Method |-> s.method,
                  Header |-> s.headers,
                  Body |-> s.body,
                  URL |-> [Raw |-> s.url.Raw, Protocol |-> s.url.Protocol,
                           Host |-> s.url.Host, Path |-> s.url.Path,
                           Query |-> s.query, Variable |-> s.url.Variable]]]

\* a separator seal that advances the counter for named requests too
SealAtSeparatorCountsAll(s) ==
    IF s.method # << >> /\ s.url.Raw # << >>
    THEN LET named == s.currentRequestName # << >>
             cnt   == s.count + 1
             name  == IF named THEN s.currentRequestName ELSE RequestDash \o Itoa(cnt)
             item  == SealedItem(s, name)
         IN  IF s.hasGroupSeparators /\ s.currentGroup.set
             THEN [s EXCEPT !.count = cnt,
                            !.currentGroup.Items = Append(@, item)]
             ELSE [s EXCEPT !.count = cnt,
                            !.allItems = Append(@, item)]
    ELSE s

\* the seal of the separator case: "End of request: ### - save current request"
SealAtSeparator(s) ==
    IF s.method # << >> /\ s.url.Raw # << >>
    THEN LET named == s.currentRequestName # << >>
             cnt   == IF named THEN s.count ELSE s.count + 1
             name  == IF named THEN s.currentRequestName ELSE RequestDash \o Itoa(cnt)
             item  == SealedItem(s, name)
         IN  IF s.hasGroupSeparators /\ s.currentGroup.set
             THEN [s EXCEPT !.count = cnt,
                            !.currentGroup.Items = Append(@, item)]
             ELSE [s EXCEPT !.count = cnt,
                            !.allItems = Append(@, item)]
    ELSE s

\* an end-of-input seal that always appends to the flat list
SealAtEOFFlat(s) ==
    IF s.method # << >> /\ s.url.Raw # << >>
    THEN LET named == s.currentRequestName # << >>
             cnt   == IF named THEN s.count ELSE s.count + 1
             name  == IF named THEN s.currentRequestName ELSE RequestDash \o Itoa(cnt)
         IN  [s EXCEPT !.count = cnt,
                       !.allItems = Append(@, SealedItem(s, name))]
    ELSE s

\* "Handle the last request if it doesn't end with ###"
SealAtEOF(s) ==
    IF s.method # << >> /\ s.url.Raw # << >>
    THEN LET named == s.currentRequestName # << >>
             cnt   == IF named THEN s.count ELSE s.count + 1
             name  == IF named THEN s.currentRequestName ELSE RequestDash \o Itoa(cnt)
             item  == SealedItem(s, name)
         IN  IF s.hasGroupSeparators /\ s.currentGroup.set
             THEN [s EXCEPT !.count = cnt,
                            !.currentGroup.Items = Append(@, item)]
             ELSE [s EXCEPT !.count = cnt,
                            !.allItems = Append(@, item)]
    ELSE s

\* "Add the current group to groups if it has items"
CloseGroup(s) ==
    IF s.currentGroup.set /\ Len(s.currentGroup.Items) > 0
    THEN [s EXCEPT !.groups = Append(@, [Name |-> s.currentGroup.Name,
                                         Items |-> s.currentGroup.Items])]
    ELSE s

\* the four copies of "if requestVariableRegex.MatchString(line) { ...
\* requestVariables[varName] = varValue }"
SetRequestVariable(s, line) ==
    LET m == requestVariableRegex(line)
    IN  IF m.ok THEN [s EXCEPT !.requestVariables = MapSet(@, m.g1, m.g2)] ELSE s

----------------------------------------------------------------------------
(* The cases of the scan loop's switch, each on the trimmed line           *)

\* a group case that opens the new group without keeping the one before
CaseGroupNoClose(s, line) ==
    LET groupName == TrimSpace(groupRegex(line).g1)
    IN  [s EXCEPT !.currentGroup = [set |-> TRUE, Name |-> groupName, Items |-> << >>],
                  !.hasGroupSeparators = TRUE]

\* case groupRegex.MatchString(line)
CaseGroup(s, line) ==
    LET groupName == TrimSpace(groupRegex(line).g1)
        closed    == CloseGroup(s)
    IN  [closed EXCEPT !.currentGroup = [set |-> TRUE, Name |-> groupName,
                                         Items |-> << >>],
                       !.hasGroupSeparators = TRUE]

\* case nameRegex.MatchString(line)
CaseName(s, line) == [s EXCEPT !.currentRequestName = nameRegex(line).g1]

\* case descriptionRegex.MatchString(line)
CaseDescription(s, line) ==
    [s EXCEPT !.currentRequestDescription = descriptionRegex(line).g1]

\* case localVariableRegex.MatchString(line)
CaseLocalVariable(s, line) ==
    LET m == localVariableRegex(line)
    IN  [s EXCEPT !.localVariables = MapSet(@, m.g1, TrimSpace(m.g2))]

\* case strings.HasPrefix(line, "<") && strings.Contains(line, "{%")
CaseScriptStart(s, line) ==
    IF Contains(line, ScriptClose)
    THEN SetRequestVariable(s, line)
    ELSE SetRequestVariable([s EXCEPT !.inRequestScript = TRUE], line)

\* case strings.Contains(line, "%}") && inRequestScript
CaseScriptEnd(s, line) ==
    SetRequestVariable([s EXCEPT !.inRequestScript = FALSE], line)

\* a script case that folds the line into the body text
CaseScriptAsBody(s, line) == SetRequestVariable([s EXCEPT !.data = @ \o line \o NL], line)

\* case inRequestScript
CaseScript(s, line) == SetRequestVariable(s, line)

\* a separator case that seals the request and keeps the request locals
CaseSeparatorNoReset(s, line) == SealAtSeparator(s)

\* a separator case that keeps the pending description
CaseSeparatorKeepsDescription(s, line) == resetRequest(SealAtSeparator(s))

\* case requestSeparatorRegex.MatchString(line)
CaseSeparator(s, line) ==
    [resetRequest(SealAtSeparator(s)) EXCEPT !.currentRequestDescription = << >>]

\* a comment case that reads a comment holding ':' as a header
CaseCommentAsHeader(s, line) ==
    IF Contains(line, Colon) /\ ~s.startedJSON
    THEN [s EXCEPT !.headers = Append(@, [Key |-> TrimSpace(SplitN2(line, Colon)[1]),
                                          Value |-> TrimSpace(SplitN2(line, Colon)[2]),
                                          Type |-> "text"])]
    ELSE s

\* case strings.HasPrefix(line, "#"): "Skip other comments"
CaseComment(s, line) == s

\* case httpMethodRegex.MatchString(line)
CaseMethod(s, line) ==
    LET parts  == Fields(line)
        rawURL == parts[2]
    IN  IF Len(parts) >= 2
        THEN [s EXCEPT !.method = parts[1],
                       !.url = parseURL(rawURL, [s.url EXCEPT !.Raw = rawURL],
                                        s.localVariables, s.requestVariables),
                       !.query = @ \o ParseQuery(rawURL)]
        ELSE s

\* a body-start case without the single-line branch
CaseBodyStartNoClose(s, line) ==
    [s EXCEPT !.body = [@ EXCEPT !.Mode = "raw", !.Options = TRUE],
              !.startedJSON = TRUE,
              !.data = @ \o line \o NL]

\* case strings.HasPrefix(line, "{")
CaseBodyStart(s, line) ==
    IF HasSuffix(line, RBrace)
    THEN [s EXCEPT !.body = [Mode |-> "raw", Raw |-> TrimSpace(line), Options |-> TRUE],
                   !.startedJSON = FALSE]
    ELSE [s EXCEPT !.body = [@ EXCEPT !.Mode = "raw", !.Options = TRUE],
                   !.startedJSON = TRUE,
                   !.data = @ \o line \o NL]

\* a header case that keeps one header per key
CaseHeaderDedup(s, line) ==
    LET headerParts == SplitN2(line, Colon)
        key == TrimSpace(headerParts[1])
    IN  IF \E i \in 1..Len(s.headers) : s.headers[i].Key = key
        THEN s
        ELSE [s EXCEPT !.headers = Append(@, [Key |-> key,
                                              Value |-> TrimSpace(headerParts[2]),
                                              Type |-> "text"])]

\* case strings.Contains(line, ":") && !startedJSON
CaseHeader(s, line) ==
    LET headerParts == SplitN2(line, Colon)
    IN  IF Len(headerParts) = 2
        THEN [s EXCEPT !.headers = Append(@, [Key |-> TrimSpace(headerParts[1]),
                                              Value |-> TrimSpace(headerParts[2]),
                                              Type |-> "text"])]
        ELSE s

\* a body-continuation case that reads the line as a header
CaseBodyColonAsHeader(s, line) == CaseHeader(s, line)

\* case strings.Contains(line, ":") && startedJSON
CaseBodyColon(s, line) == [s EXCEPT !.data = @ \o line \o NL]

\* case strings.HasSuffix(line, "}") && startedJSON
CaseBodyEnd(s, line) ==
    [s EXCEPT !.data = @ \o line,
              !.body = [@ EXCEPT !.Raw = TrimSpace(s.data \o line)],
              !.startedJSON = FALSE]

\* case startedJSON
CaseBodyOther(s, line) == [s EXCEPT !.data = @ \o line \o NL]

\* the switch: the first case whose condition holds for the trimmed line
Kind(s, line) ==
    CASE line = << >>                                        -> "blank"
      [] groupRegexAt(line) # 0                              -> "group"
      [] nameRegexAt(line) # 0                               -> "name"
      [] descriptionRegexAt(line) # 0                        -> "description"
      [] localVariableRegex(line).ok                         -> "localVariable"
      [] HasPrefix(line, LtTok) /\ Contains(line, ScriptOpen) -> "scriptStart"
      [] s.inRequestScript /\ Contains(line, ScriptClose)    -> "scriptEnd"
      [] s.inRequestScript                                   -> "script"
      [] HasPrefix(line, SepTok)                             -> "separator"
      [] HasPrefix(line, HashTok)                            -> "comment"
      [] httpMethodRegex(line)                               -> "method"
      [] HasPrefix(line, LBrace)                             -> "bodyStart"
      [] Contains(line, Colon) /\ ~s.startedJSON             -> "header"
      [] Contains(line, Colon) /\ s.startedJSON              -> "bodyColon"
      [] HasSuffix(line, RBrace) /\ s.startedJSON            -> "bodyEnd"
      [] s.startedJSON                                       -> "bodyOther"
      [] OTHER                                               -> "none"

----------------------------------------------------------------------------
(* The document assembler                                                  *)

\* the loop over allVariables looking in the environment first
RECURSIVE DetectedVariablesEnvFirst(_, _, _, _)
DetectedVariablesEnvFirst(names, uniqueVars, localVariables, e) ==
    IF names = << >> THEN << >>
    ELSE LET varName == Head(names)
             value   == IF ~e.err /\ e.hasDev /\ varName \in DOMAIN e.dev
                        THEN e.dev[varName]
                        ELSE IF varName \in DOMAIN localVariables
                             THEN localVariables[varName]
                             ELSE << >>
         IN  IF varName \in uniqueVars
             THEN DetectedVariablesEnvFirst(Tail(names), uniqueVars, localVariables, e)
             ELSE <<[Key |-> varName, Value |-> value, Type |-> "string"]>>
                  \o DetectedVariablesEnvFirst(Tail(names), uniqueVars \cup {varName},
                                               localVariables, e)

\* the loop over allVariables without the uniqueVars set
RECURSIVE DetectedVariablesNoSeen(_, _, _, _)
DetectedVariablesNoSeen(names, uniqueVars, localVariables, e) ==
    IF names = << >> THEN << >>
    ELSE LET varName == Head(names)
             value   == IF varName \in DOMAIN localVariables
                        THEN localVariables[varName]
                        ELSE IF ~e.err /\ e.hasDev /\ varName \in DOMAIN e.dev
                             THEN e.dev[varName]
                             ELSE << >>
         IN  <<[Key |-> varName, Value |-> value, Type |-> "string"]>>
             \o DetectedVariablesNoSeen(Tail(names), uniqueVars, localVariables, e)

\* "Add detected variables from file content": the loop over allVariables
\* with the uniqueVars set
RECURSIVE DetectedVariables(_, _, _, _)
DetectedVariables(names, uniqueVars, localVariables, e) ==
    IF names = << >> THEN << >>
    ELSE LET varName == Head(names)
             value   == IF varName \in DOMAIN localVariables
                        THEN localVariables[varName]
                        ELSE IF ~e.err /\ e.hasDev /\ varName \in DOMAIN e.dev
                             THEN e.dev[varName]
                             ELSE << >>
         IN  IF varName \in uniqueVars
             THEN DetectedVariables(Tail(names), uniqueVars, localVariables, e)
             ELSE <<[Key |-> varName, Value |-> value, Type |-> "string"]>>
                  \o DetectedVariables(Tail(names), uniqueVars \cup {varName},
                                       localVariables, e)

\* the orders in which "for varName, varValue := range localVariables" may
\* visit the keys in S (Go leaves the iteration order of a map unspecified)
RangeOrders(S) ==
    {f \in [1..Cardinality(S) -> S] : \A a \in S : \E i \in 1..Cardinality(S) : f[i] = a}

\* "Add any local variables that weren't detected in the content", visiting
\* the map in the given order
LeftoverVariables(order, localVariables) ==
    [i \in 1..Len(order) |->
        [Key |-> order[i], Value |-> localVariables[order[i]], Type |-> "string"]]

\* the names DetectedVariables has put in uniqueVars
Range(f) == {f[i] : i \in DOMAIN f}

\* "if item.Request.Method != """
ValidItem(it) == it.Request.Method # << >>

\* the loop over groups: one folder per group with a valid item
RECURSIVE Folders(_)
Folders(groups) ==
    IF groups = << >> THEN << >>
    ELSE LET group      == Head(groups)
             validItems == SelectSeq(group.Items, ValidItem)
         IN  IF Len(group.Items) > 0 /\ Len(validItems) > 0
             THEN <<[Name |-> group.Name, Description |-> << >>, Item |-> validItems,
                     Request |-> EmptyRequest]>> \o Folders(Tail(groups))
             ELSE Folders(Tail(groups))

\* "Convert groups to Postman folder structure": collection.Items
CollectionItems(s) ==
    IF s.hasGroupSeparators /\ Len(s.groups) > 0
    THEN Folders(s.groups)
    ELSE SelectSeq(s.allItems, ValidItem)

----------------------------------------------------------------------------
(* convertHTTPToPostman as a state machine                                 *)

\* fileContent: every scanned line followed by "\n"
RECURSIVE FileContent(_)
FileContent(lines) ==
    IF lines = << >> THEN << >> ELSE Head(lines) \o NL \o FileContent(Tail(lines))

\* line := strings.TrimSpace(scanner.Text()) for the line the scan is at
Line == TrimSpace(input[pos + 1])

\* a check that fails whenever loadEnvironment failed
EnvFailAlways ==
    /\ pc = "open"
    /\ readable
    /\ env.err
    /\ pc' = "error"
    /\ out' = [NoOutput EXCEPT !.status = "error",
                               !.errVars = detectVariables(FileContent(Delivered(input)))]
    /\ UNCHANGED <<input, readable, env, pos, st>>

\* an open failure that is dropped: the conversion goes on over no lines
OpenFailDropped ==
    /\ pc = "open"
    /\ ~readable
    /\ pc' = "scan"
    /\ UNCHANGED <<input, readable, env, pos, st, out>>

\* os.Open fails: "return err"
OpenFail ==
    /\ pc = "open"
    /\ ~readable
    /\ pc' = "error"
    /\ out' = [NoOutput EXCEPT !.status = "error"]
    /\ UNCHANGED <<input, readable, env, pos, st>>

\* prescan finds variables and loadEnvironment failed: "return fmt.Errorf(...)"
EnvFail ==
    /\ pc = "open"
    /\ readable
    /\ Len(detectVariables(FileContent(Delivered(input)))) > 0
    /\ env.err
    /\ pc' = "error"
    /\ out' = [NoOutput EXCEPT !.status = "error",
                               !.errVars = detectVariables(FileContent(Delivered(input)))]
    /\ UNCHANGED <<input, readable, env, pos, st>>

\* the prescan passes: the scan loop starts
Prescan ==
    /\ pc = "open"
    /\ readable
    /\ ~(Len(detectVariables(FileContent(Delivered(input)))) > 0 /\ env.err)
    /\ pc' = "scan"
    /\ st' = [st EXCEPT !.allVariables = detectVariables(FileContent(Delivered(input)))]
    /\ UNCHANGED <<input, readable, env, pos, out>>

\* one iteration of the scan loop whose line is of the given kind
ScanStep(kind, next) ==
    /\ pc = "scan"
    /\ pos < Len(Delivered(input))
    /\ Kind(st, Line) = kind
    /\ st' = next
    /\ pos' = pos + 1
    /\ UNCHANGED <<input, readable, env, pc, out>>

ReadBlank         == ScanStep("blank", st)
ReadGroup         == ScanStep("group", CaseGroup(st, Line))
ReadName          == ScanStep("name", CaseName(st, Line))
ReadDescription   == ScanStep("description", CaseDescription(st, Line))
ReadLocalVariable == ScanStep("localVariable", CaseLocalVariable(st, Line))
ReadScriptStart   == ScanStep("scriptStart", CaseScriptStart(st, Line))
ReadScriptEnd     == ScanStep("scriptEnd", CaseScriptEnd(st, Line))
ReadScript        == ScanStep("script", CaseScript(st, Line))
ReadSeparator     == ScanStep("separator", CaseSeparator(st, Line))
ReadComment       == ScanStep("comment", CaseComment(st, Line))
ReadMethod        == ScanStep("method", CaseMethod(st, Line))
ReadBodyStart     == ScanStep("bodyStart", CaseBodyStart(st, Line))
ReadHeader        == ScanStep("header", CaseHeader(st, Line))
ReadBodyColon     == ScanStep("bodyColon", CaseBodyColon(st, Line))
ReadBodyEnd       == ScanStep("bodyEnd", CaseBodyEnd(st, Line))
ReadBodyOther     == ScanStep("bodyOther", CaseBodyOther(st, Line))
\* no case of the switch matches
ReadUnmatched     == ScanStep("none", st)

\* the scanner stops at a line it cannot hold:
\* "if err := scanner.Err(); err != nil { return err }"
ScanFail ==
    /\ pc = "scan"
    /\ pos = Len(Delivered(input))
    /\ pos < Len(input)
    /\ pc' = "error"
    /\ out' = [NoOutput EXCEPT !.status = "error"]
    /\ UNCHANGED <<input, readable, env, pos, st>>

\* the scanner is exhausted: seal the last request, close the last group
EndOfInput ==
    /\ pc = "scan"
    /\ pos = Len(input)
    /\ st' = CloseGroup(SealAtEOF(st))
    /\ pc' = "assemble"
    /\ UNCHANGED <<input, readable, env, pos, out>>

\* the documents the assembler can write from the locals s and the
\* environment e: one for each order of the range over localVariables
Documents(s, e) ==
    LET detected == DetectedVariables(s.allVariables, {}, s.localVariables, e)
        leftover == (DOMAIN s.localVariables) \ Range(s.allVariables)
    IN  {[status |-> "written",
          Items |-> CollectionItems(s),
          Variable |-> detected \o LeftoverVariables(order, s.localVariables),
          errVars |-> << >>] : order \in RangeOrders(leftover)}

\* build collection.Variable and collection.Items and write the document
Assemble ==
    /\ pc = "assemble"
    /\ out' \in Documents(st, env)
    /\ pc' = "done"
    /\ UNCHANGED <<input, readable, env, pos, st>>

Next ==
    \/ OpenFail
    \/ EnvFail
    \/ Prescan
    \/ ReadBlank
    \/ ReadGroup
    \/ ReadName
    \/ ReadDescription
    \/ ReadLocalVariable
    \/ ReadScriptStart
    \/ ReadScriptEnd
    \/ ReadScript
    \/ ReadSeparator
    \/ ReadComment
    \/ ReadMethod
    \/ ReadBodyStart
    \/ ReadHeader
    \/ ReadBodyColon
    \/ ReadBodyEnd
    \/ ReadBodyOther
    \/ ReadUnmatched
    \/ ScanFail
    \/ EndOfInput
    \/ Assemble

\* the state at the entry of convertHTTPToPostman for the given input files
\* and environment files; an unreadable path has no content
InitWith(Inputs, Envs) ==
    /\ \/ input \in Inputs /\ readable = TRUE
       \/ input = << >> /\ readable = FALSE
    /\ env \in Envs
    /\ pc = "open"
    /\ pos = 0
    /\ st = InitialLocals
    /\ out = NoOutput

----------------------------------------------------------------------------
(* Input lines and environments the specifications draw from               *)

LnGroupG == <<"#"," ","@","g","r","o","u","p","_","n","a","m","e"," ","G">>
LnNameN == <<"#"," ","@","n","a","m","e"," ","n","1">>
LnDesc == <<"/","/"," ","d">>
LnLocalV == <<"@","v"," ","="," ","1">>
LnScriptOne ==
    <<"<"," ","{","%"," ","r","e","q","u","e","s","t",".","v","a","r","i","a","b","l","e","s",
      ".","s","e","t","(","\"","i","d","\"",","," ","\"","7","\"",")"," ","%","}">>
LnScriptOpen == <<"<"," ","{","%">>
LnScriptBody == <<"x",":"," ","1">>
LnScriptClose == <<"%","}">>
LnGetBase ==
    <<"G","E","T"," ","{","{","b","a","s","e","U","r","l","}","}","/","u","/","{","{","i","d",
      "}","}">>
LnHdrA == <<"A",":"," ","1">>
LnOpenBrace == <<"{">>
LnMemberA == <<" "," ","\"","a","\"",":"," ","1",",">>
LnArrayOpen == <<"[">>
LnCloseBrace == <<"}">>
LnJunk == <<"j","u","n","k">>
LnBlank == << >>
LnComment == <<"#"," ","c">>
LnSep == <<"#","#","#">>

\* an http-client.env.json whose "dev" environment sets baseUrl
EnvDev ==
    [err |-> FALSE, hasDev |-> TRUE,
     dev |-> [k \in {<<"b","a","s","e","U","r","l">>} |-> <<"h",".","i","o">>]]

\* one file that takes the scan through every case of the switch
AllKindsInput ==
    <<LnGroupG, LnNameN, LnDesc, LnLocalV, LnScriptOne, LnScriptOpen, LnScriptBody,
      LnScriptClose, LnGetBase, LnHdrA, LnOpenBrace, LnMemberA, LnArrayOpen,
      LnCloseBrace, LnJunk, LnBlank, LnComment, LnSep>>

\* with and without a loadable environment, and with a line after it that
\* the scanner cannot hold
InitAllKinds ==
    InitWith({AllKindsInput, Append(AllKindsInput, LongLine)}, {EnvMissing, EnvDev})

\* all files of at most n lines, each line from pool
FilesUpTo(pool, n) == UNION {[1..k -> pool] : k \in 0..n}

\* the body of the scan loop as a function of the locals and the raw line:
\* the locals after the iteration
Step(s, raw) ==
    LET line == TrimSpace(raw)
        kind == Kind(s, line)
    IN  CASE kind = "group"         -> CaseGroup(s, line)
          [] kind = "name"          -> CaseName(s, line)
          [] kind = "description"   -> CaseDescription(s, line)
          [] kind = "localVariable" -> CaseLocalVariable(s, line)
          [] kind = "scriptStart"   -> CaseScriptStart(s, line)
          [] kind = "scriptEnd"     -> CaseScriptEnd(s, line)
          [] kind = "script"        -> CaseScript(s, line)
          [] kind = "separator"     -> CaseSeparator(s, line)
          [] kind = "comment"       -> CaseComment(s, line)
          [] kind = "method"        -> CaseMethod(s, line)
          [] kind = "bodyStart"     -> CaseBodyStart(s, line)
          [] kind = "header"        -> CaseHeader(s, line)
          [] kind = "bodyColon"     -> CaseBodyColon(s, line)
          [] kind = "bodyEnd"       -> CaseBodyEnd(s, line)
          [] kind = "bodyOther"     -> CaseBodyOther(s, line)
          [] OTHER                  -> s

\* the scan loop over the given lines, from locals s
RECURSIVE ScanLoop(_, _)
ScanLoop(s, lines) ==
    IF lines = << >> THEN s ELSE ScanLoop(Step(s, Head(lines)), Tail(lines))

\* the locals convertHTTPToPostman holds when it starts to assemble the
\* document for a readable file of the given lines
Converted(lines) ==
    CloseGroup(SealAtEOF(ScanLoop(
        [InitialLocals EXCEPT !.allVariables = detectVariables(FileContent(lines))],
        lines)))

LnGetU == <<"G","E","T"," ","h","t","t","p",":","/","/","a",".","b","/","u">>
LnPostU == <<"P","O","S","T"," ","h","t","t","p",":","/","/","a",".","b","/","u">>
LnDelU == <<"D","E","L","E","T","E"," ","h","t","t","p",":","/","/","a",".","b","/","u","/","1">>
LnHdrColon == <<"B",":"," ","x",":","y">>
LnHdrPad == <<" "," ","C"," ",":"," "," ","x",":","y"," ">>
LnCommentColon == <<"#"," ","k",":"," ","v">>
LnNestOpen == <<" "," ","\"","a","\"",":"," ","{">>
LnMemberB == <<" "," ","\"","b","\"",":"," ","1">>
LnJsonOne == <<"{","\"","n","\"",":"," ","\"","J","\"",","," ","\"","a","\"",":"," ","3","0","}">>
LnSepNamed == <<"#","#","#"," ","L","o","g","i","n">>

----------------------------------------------------------------------------
(* Notions the claims are stated in                                        *)

Done == pc = "done" /\ out.status = "written"

IsSeparatorLine(raw) == HasPrefix(TrimSpace(raw), SepTok)
IsMethodLine(raw) == httpMethodRegex(TrimSpace(raw))
IsGroupLine(raw) == groupRegex(TrimSpace(raw)).ok
IsScriptStartLine(raw) ==
    HasPrefix(TrimSpace(raw), LtTok) /\ Contains(TrimSpace(raw), ScriptOpen)

\* the runs of lines between separator lines
RECURSIVE RunsOf(_)
RunsOf(lines) ==
    LET I == {i \in 1..Len(lines) : IsSeparatorLine(lines[i])}
    IN  IF I = {} THEN <<lines>>
        ELSE <<SubSeq(lines, 1, Min(I) - 1)>> \o RunsOf(Tail2(lines, Min(I) + 1))

NonEmptySeq(x) == x # << >>

\* the request blocks of a file: the non-empty runs between separator lines
BlocksOf(lines) == SelectSeq(RunsOf(lines), NonEmptySeq)

MethodLinesOf(block) == SelectSeq(block, IsMethodLine)

\* the HTTP verb a method line starts with
VerbOf(raw) ==
    CHOOSE v \in {GET, PUT, POST, DELETE, OPTIONS} :
        HasPrefix(TrimSpace(raw), v \o <<" ">>)

----------------------------------------------------------------------------
(* SpecFlat: files of method lines and separators, and shorter files that  *)
(* mix them with headers, blank lines and group declarations               *)

MaxFlatLines == 5
MaxMixedLines == 3

FlatPool == {LnGetU, LnPostU, LnDelU, LnSep}
MixedPool == {LnGetU, LnSep, LnHdrA, LnGroupG, LnBlank}

InitFlat ==
    \/ InitWith(FilesUpTo(FlatPool, MaxFlatLines) \cup FilesUpTo(MixedPool, MaxMixedLines),
                {EnvDev})
    \/ InitAllKinds

SpecFlat == InitFlat /\ [][Next]_vars

\* a flat file of request blocks: no group declaration, no script block, and
\* every block holds exactly one method line
WellFormedFlat(lines) ==
    /\ \A i \in 1..Len(lines) : ~IsGroupLine(lines[i]) /\ ~IsScriptStartLine(lines[i])
    /\ \A k \in 1..Len(BlocksOf(lines)) : Len(MethodLinesOf(BlocksOf(lines)[k])) = 1

\* C1: in flat mode, a file of N request blocks, each holding one method
\* line, yields exactly N items, in block order, item i carrying the method
\* of block i.
C1_FlatItemsFollowBlocks ==
    (Done /\ WellFormedFlat(input)) =>
        LET blocks == BlocksOf(input)
        IN  /\ Len(out.Items) = Len(blocks)
            /\ \A i \in 1..Len(blocks) :
                   /\ out.Items[i].Item = << >>
                   /\ out.Items[i].Request.Method = VerbOf(MethodLinesOf(blocks[i])[1])

\* three blocks GET, POST, DELETE separated by ### have been converted
C1_Witness ==
    /\ Done
    /\ WellFormedFlat(input)
    /\ Len(BlocksOf(input)) = 3
    /\ [i \in 1..3 |-> out.Items[i].Request.Method] = <<GET, POST, DELETE>>

----------------------------------------------------------------------------
(* SpecHeaders: files of a method line, header lines (one padded and with  *)
(* a second colon), separators and the two brace lines of a JSON body, and *)
(* shorter files with comments, script blocks and group declarations       *)

MaxHeaderLines == 4

HeaderPool == {LnGetU, LnHdrA, LnHdrPad, LnSep, LnOpenBrace, LnCloseBrace}
HeaderMixedPool ==
    {LnGetU, LnHdrA, LnHdrColon, LnCommentColon, LnScriptOpen, LnScriptClose, LnGroupG,
     LnJsonOne}

InitHeaders ==
    \/ InitWith(FilesUpTo(HeaderPool, MaxHeaderLines)
                    \cup FilesUpTo(HeaderMixedPool, MaxMixedLines), {EnvDev})
    \/ InitAllKinds

SpecHeaders == InitHeaders /\ [][Next]_vars

\* the header a header line stands for: split on the first ':', both sides
\* trimmed
HeaderOf(line) ==
    LET i == Index(line, Colon)
    IN  [Key |-> TrimSpace(SubSeq(line, 1, i - 1)),
         Value |-> TrimSpace(SubSeq(line, i + 1, Len(line))),
         Type |-> "text"]

\* a line containing ':' read outside JSON body mode and outside a script
\* block that no earlier line kind matches
IsHeaderLine(s, line) ==
    /\ Contains(line, Colon)
    /\ ~s.startedJSON
    /\ ~s.inRequestScript
    /\ ~HasPrefix(line, HashTok)
    /\ ~descriptionRegex(line).ok
    /\ ~localVariableRegex(line).ok
    /\ ~(HasPrefix(line, LtTok) /\ Contains(line, ScriptOpen))
    /\ ~httpMethodRegex(line)
    /\ ~HasPrefix(line, LBrace)

\* the request under construction has a method and a URL
Pending(s) == s.method # << >> /\ s.url.Raw # << >>

\* the items sealed by the step from locals s to locals t
NewlySealed(s, t) ==
    IF Len(t.allItems) > Len(s.allItems)
    THEN SubSeq(t.allItems, Len(s.allItems) + 1, Len(t.allItems))
    ELSE IF t.currentGroup.set /\ s.currentGroup.set
            /\ Len(t.currentGroup.Items) > Len(s.currentGroup.Items)
         THEN SubSeq(t.currentGroup.Items, Len(s.currentGroup.Items) + 1,
                     Len(t.currentGroup.Items))
         ELSE << >>

\* the step seals the pending request of s, if there is one, with the given
\* headers
SealsWithHeaders(s, t, hs) ==
    IF Pending(s)
    THEN Len(NewlySealed(s, t)) = 1 /\ NewlySealed(s, t)[1].Request.Header = hs
    ELSE NewlySealed(s, t) = << >>

\* C2: a header line appends its header (split on the first ':', trimmed,
\* type "text") to the block's header list, every other line leaves the list
\* alone, and a seal (separator or end of input) gives the sealed request
\* exactly that list; the separator then starts the next block with no headers.
C2_HeadersFollowLines ==
    [][pc = "scan" =>
        IF pc' = "assemble"
        THEN SealsWithHeaders(st, st', st.headers)
        ELSE IF IsHeaderLine(st, Line)
             THEN /\ st'.headers = Append(st.headers, HeaderOf(Line))
                  /\ NewlySealed(st, st') = << >>
             ELSE IF HasPrefix(Line, SepTok) /\ ~st.inRequestScript
                  THEN /\ st'.headers = << >>
                       /\ SealsWithHeaders(st, st', st.headers)
                  ELSE /\ st'.headers = st.headers
                       /\ NewlySealed(st, st') = << >>]_vars

HdrA1 == [Key |-> <<"A">>, Value |-> <<"1">>, Type |-> "text"]
HdrCxy == [Key |-> <<"C">>, Value |-> <<"x", ":", "y">>, Type |-> "text"]

\* a request written with three headers, one of them twice, in line order
C2_Witness ==
    /\ Done
    /\ Len(out.Items) = 1
    /\ out.Items[1].Request.Header = <<HdrA1, HdrCxy, HdrA1>>

----------------------------------------------------------------------------
(* SpecBody: a POST line followed by body lines, and shorter files with    *)
(* script blocks, separators and comments around a one-line body           *)

MaxBodyLines == 4

BodyPool == {LnOpenBrace, LnNestOpen, LnMemberB, LnCloseBrace, LnJsonOne, LnHdrA}
BodyMixedPool == {LnPostU, LnJsonOne, LnOpenBrace, LnScriptOpen, LnScriptClose, LnSep, LnHdrA}

InitBody ==
    \/ InitWith({<<LnPostU>> \o b : b \in FilesUpTo(BodyPool, MaxBodyLines)}
                    \cup FilesUpTo(BodyMixedPool, MaxMixedLines), {EnvDev})
    \/ InitAllKinds

SpecBody == InitBody /\ [][Next]_vars

\* C3: a line that begins with '{' and ends with '}', read as a body line
\* (outside a script block and outside an open body), sets body mode "raw" and the raw body to the
\* trimmed line once, adds no header and no pending body text, and leaves JSON
\* body mode closed.
C3_OneLineBody ==
    [][(pc = "scan" /\ pc' = "scan" /\ ~st.inRequestScript /\ ~st.startedJSON
        /\ HasPrefix(Line, LBrace) /\ HasSuffix(Line, RBrace)) =>
            /\ st'.body.Mode = "raw"
            /\ st'.body.Raw = TrimSpace(input[pos + 1])
            /\ st'.headers = st.headers
            /\ st'.data = st.data
            /\ ~st'.startedJSON]_vars

\* POST, one header and a one-line body holding ':' have been converted
C3_Witness ==
    /\ Done
    /\ input = <<LnPostU, LnHdrA, LnJsonOne>>
    /\ Len(out.Items) = 1
    /\ out.Items[1].Request.Body.Mode = "raw"
    /\ out.Items[1].Request.Body.Raw = LnJsonOne
    /\ out.Items[1].Request.Header = <<HdrA1>>

\* the lines joined by "\n"
RECURSIVE JoinLines(_)
JoinLines(lines) ==
    IF lines = << >> THEN << >>
    ELSE IF Len(lines) = 1 THEN lines[1]
    ELSE Head(lines) \o NL \o JoinLines(Tail(lines))

\* the body lines of a file that is a POST line followed by a body
BodyLinesOf(lines) == Tail(lines)

\* a POST line followed by '{', member lines that open or close nothing, and
\* '}'
IsFlatBodyFile(lines) ==
    /\ Len(lines) >= 4
    /\ lines[1] = LnPostU
    /\ TrimSpace(lines[2]) = LBrace
    /\ TrimSpace(lines[Len(lines)]) = RBrace
    /\ \A i \in 3..(Len(lines) - 1) :
           /\ HasPrefix(TrimSpace(lines[i]), Quote)
           /\ ~HasSuffix(TrimSpace(lines[i]), RBrace)
           /\ ~HasSuffix(TrimSpace(lines[i]), LBrace)

\* C4: the sealed raw body of a multi-line JSON body is the source body text
\* with its line breaks and the indentation of its interior lines; only the
\* ends are trimmed.
C4_BodyKeepsIndentation ==
    (Done /\ IsFlatBodyFile(input)) =>
        /\ Len(out.Items) = 1
        /\ out.Items[1].Request.Body.Raw = TrimSpace(JoinLines(BodyLinesOf(input)))

NotSpace(c) == ~IsSpace(c)

\* the text without its white space
StripSpaces(text) == SelectSeq(text, NotSpace)

\* opening braces minus closing braces
BraceDepth(text) ==
    Cardinality({i \in 1..Len(text) : text[i] = "{"})
        - Cardinality({i \in 1..Len(text) : text[i] = "}"})

\* one object: the braces balance at the end of the text and nowhere before
BraceBalanced(text) ==
    /\ text # << >>
    /\ BraceDepth(text) = 0
    /\ \A k \in 1..(Len(text) - 1) : BraceDepth(SubSeq(text, 1, k)) > 0

\* a POST line followed by a brace-balanced object on several lines: '{',
\* then member lines and closing braces
IsBalancedBodyFile(lines) ==
    /\ Len(lines) >= 3
    /\ lines[1] = LnPostU
    /\ TrimSpace(lines[2]) = LBrace
    /\ \A i \in 3..Len(lines) :
           \/ HasPrefix(TrimSpace(lines[i]), Quote)
           \/ TrimSpace(lines[i]) = RBrace
    /\ BraceBalanced(StripSpaces(JoinLines(BodyLinesOf(lines))))

\* C5: for a brace-balanced multi-line JSON body the sealed raw body is
\* brace-balanced and holds every body line: body mode ends at the line that
\* closes the outermost object, not at a line closing a nested object.
C5_BodyEndsAtOutermostBrace ==
    (Done /\ IsBalancedBodyFile(input)) =>
        /\ Len(out.Items) = 1
        /\ BraceBalanced(StripSpaces(out.Items[1].Request.Body.Raw))
        /\ StripSpaces(out.Items[1].Request.Body.Raw)
               = StripSpaces(JoinLines(BodyLinesOf(input)))

----------------------------------------------------------------------------
(* SpecURL: files of method lines with different raw URLs, and separators  *)

MaxUrlLines == 3

LnGetApi ==
    <<"G","E","T"," ","h","t","t","p","s",":","/","/","a","p","i",".","e","x","a","m","p","l",
      "e",".","c","o","m","/","u","s","e","r","s","?","p","a","g","e","=","1">>
LnGetThree ==
    <<"G","E","T"," ","h","t","t","p",":","/","/","a",".","b","/","u","?","p","a","g","e","=",
      "1","&","l","i","m","i","t","=","1","0","&","s","o","r","t","=","n","a","m","e">>
LnGetBare == <<"G","E","T"," ","h","t","t","p",":","/","/","a",".","b","?","x","&","k","=","v">>
LnGetEq ==
    <<"G","E","T"," ","h","t","t","p",":","/","/","a",".","b","/","p","?","a","=","b","=","c">>
LnGetHost == <<"G","E","T"," ","h","t","t","p",":","/","/","a",".","b">>
LnGetNoScheme == <<"G","E","T"," ","a",".","b","/","c">>
LnGetProxy ==
    <<"G","E","T"," ","h","t","t","p",":","/","/","p",".","x","/","h","t","t","p",":","/","/",
      "t","/","y">>

UrlPool ==
    {LnGetApi, LnGetThree, LnGetBare, LnGetEq, LnGetHost, LnGetNoScheme, LnGetProxy, LnSep}

InitURL ==
    \/ InitWith(FilesUpTo(UrlPool, MaxUrlLines), {EnvDev})
    \/ InitAllKinds

SpecURL == InitURL /\ [][Next]_vars

\* the requests of the output: top-level requests and those in folders
RECURSIVE Leaves(_)
Leaves(items) ==
    IF items = << >> THEN << >>
    ELSE (IF Head(items).Item # << >> THEN Head(items).Item ELSE <<Head(items)>>)
             \o Leaves(Tail(items))

\* the text before the first occurrence of p (all of s if there is none)
Before(s, p) == IF Index(s, p) = 0 THEN s ELSE SubSeq(s, 1, Index(s, p) - 1)

\* the text after the first occurrence of p (nothing if there is none)
After(s, p) ==
    IF Index(s, p) = 0 THEN << >> ELSE SubSeq(s, Index(s, p) + Len(p), Len(s))

HasEq(pair) == Contains(pair, EqTok)

\* the '&'-separated pairs of the raw URL's query string that contain '='
QueryPairs(raw) ==
    IF Contains(raw, QMark) THEN SelectSeq(Split(After(raw, QMark), Amp), HasEq) ELSE << >>

\* the pair holds exactly one '='
OneEq(pair) == HasEq(pair) /\ ~Contains(After(pair, EqTok), EqTok)

\* C6: the query list of every request is one entry per '&'-separated pair
\* of its raw URL's query string that contains '=', in left-to-right order,
\* keyed by the text before '=' and valued by the text after it (the value is
\* compared for pairs with a single '=').
C6_QueryFollowsPairs ==
    Done =>
        \A k \in 1..Len(Leaves(out.Items)) :
            LET url   == Leaves(out.Items)[k].Request.URL
                pairs == QueryPairs(url.Raw)
            IN  /\ Len(url.Query) = Len(pairs)
                /\ \A i \in 1..Len(pairs) :
                       /\ url.Query[i].Key = Before(pairs[i], EqTok)
                       /\ OneEq(pairs[i]) => url.Query[i].Value = After(pairs[i], EqTok)

\* C7: in a file whose blocks hold one method line each, every query entry
\* is its pair split on the first '=' only: the value is everything after it.
C7_PairSplitOnFirstEq ==
    (Done /\ WellFormedFlat(input)) =>
        \A k \in 1..Len(out.Items) :
            LET url   == out.Items[k].Request.URL
                pairs == QueryPairs(url.Raw)
            IN  /\ Len(url.Query) = Len(pairs)
                /\ \A i \in 1..Len(pairs) :
                       /\ url.Query[i].Key = Before(pairs[i], EqTok)
                       /\ url.Query[i].Value = After(pairs[i], EqTok)

HasBaseUrl(raw) == Contains(raw, BaseUrl1) \/ Contains(raw, BaseUrl2)

\* C8: for a raw URL with a scheme:// prefix and no base-URL variable, the
\* protocol is the text before '://', the host is the first '/'-separated
\* component of the remainder without its query string, split on '.', and the
\* path is the remaining components in order.
C8_SchemeUrlDecomposition ==
    Done =>
        \A k \in 1..Len(Leaves(out.Items)) :
            LET url   == Leaves(out.Items)[k].Request.URL
                rest  == Before(After(url.Raw, SchemeSep), QMark)
                comps == Split(rest, Slash)
            IN  (Contains(url.Raw, SchemeSep) /\ ~HasBaseUrl(url.Raw)) =>
                    /\ url.Protocol = Before(url.Raw, SchemeSep)
                    /\ url.Host = Split(comps[1], Dot)
                    /\ url.Path = Tail(comps)

----------------------------------------------------------------------------
(* SpecEnd: files of method lines, separators, group declarations, name    *)
(* and description annotations and local variables, and shorter files with *)
(* headers, open bodies, open script blocks and a base-URL request          *)

MaxEndLines == 4

EndPool == {LnGetU, LnSep, LnGroupG, LnNameN, LnDesc, LnLocalV}
EndMixedPool == {LnGetU, LnHdrA, LnOpenBrace, LnScriptOpen, LnSep, LnGetBase}

InitEnd ==
    \/ InitWith(FilesUpTo(EndPool, MaxEndLines) \cup FilesUpTo(EndMixedPool, MaxMixedLines),
                {EnvDev})
    \/ InitAllKinds

SpecEnd == InitEnd /\ [][Next]_vars

Last(seq) == seq[Len(seq)]

\* C9: when the input ends with a pending request (non-empty method and
\* URL), that request is the last request of the output, and the conversion
\* gives the same items (names, descriptions, group placement included) and
\* the same variables as the conversion of the input followed by one bare
\* '###' line.
C9_EndOfInputSealsAsSeparator ==
    (Done /\ Pending(st)) =>
        LET c == Converted(Append(input, LnSep))
        IN  /\ Leaves(out.Items) # << >>
            /\ Last(Leaves(out.Items)).Request.Method = st.method
            /\ Last(Leaves(out.Items)).Request.URL.Raw = st.url.Raw
            /\ Last(Leaves(out.Items)).Request.Header = st.headers
            /\ Last(Leaves(out.Items)).Name
                   = (IF st.currentRequestName # << >> THEN st.currentRequestName
                      ELSE RequestDash \o Itoa(st.count))
            /\ Last(Leaves(out.Items)).Description = st.currentRequestDescription
            /\ CollectionItems(c) = out.Items
            /\ c.groups = st.groups
            /\ c.allItems = st.allItems
            /\ c.count = st.count
            /\ c.allVariables = st.allVariables
            /\ c.localVariables = st.localVariables

\* a named, described request of a group, pending at the end of the input, has
\* been written into the group's folder
C9_Witness ==
    /\ Done
    /\ Pending(st)
    /\ input = <<LnGroupG, LnNameN, LnDesc, LnGetU>>
    /\ Len(out.Items) = 1
    /\ out.Items[1].Name = <<"G">>
    /\ Len(out.Items[1].Item) = 1
    /\ out.Items[1].Item[1].Name = <<"n", "1">>
    /\ out.Items[1].Item[1].Description = <<"d">>

----------------------------------------------------------------------------
(* SpecComment: files of a method line, plain comments (one with ':', one  *)
(* with a variable reference, one with the script close token), a script   *)
(* start and a body start                                                  *)

MaxCommentLines == 4

LnCommentVar == <<"#"," ","{","{","x","}","}">>
LnCommentClose == <<"#"," ","%","}">>

CommentPool == {LnGetU, LnScriptOpen, LnOpenBrace, LnCommentColon, LnCommentVar, LnCommentClose}

InitComment ==
    \/ InitWith(FilesUpTo(CommentPool, MaxCommentLines), {EnvDev})
    \/ InitAllKinds

SpecComment == InitComment /\ [][Next]_vars

\* a line with a leading '#' that is no group annotation, no name annotation
\* and no separator
IsPlainComment(raw) ==
    /\ HasPrefix(TrimSpace(raw), HashTok)
    /\ ~groupRegex(TrimSpace(raw)).ok
    /\ ~nameRegex(TrimSpace(raw)).ok
    /\ ~HasPrefix(TrimSpace(raw), SepTok)

\* the lines without line i
RemoveAt(lines, i) == SubSeq(lines, 1, i - 1) \o SubSeq(lines, i + 1, Len(lines))

\* the locals of the scan when it reaches line i
LocalsAt(lines, i) ==
    ScanLoop([InitialLocals EXCEPT !.allVariables = detectVariables(FileContent(lines))],
             SubSeq(lines, 1, i - 1))

\* the conversion of the input gives the items and the variables of the
\* conversion of the input without line i
SameWithoutLine(i) ==
    LET c == Converted(RemoveAt(input, i))
    IN  /\ CollectionItems(c) = out.Items
        /\ c.allVariables = st.allVariables
        /\ c.localVariables = st.localVariables

\* C10 as stated: in every mode a plain comment line leaves the converter
\* state unchanged and the output is that of the input without the line.
C10_CommentIsInertInEveryMode ==
    Done =>
        \A i \in 1..Len(input) :
            IsPlainComment(input[i]) =>
                /\ Step(LocalsAt(input, i), input[i]) = LocalsAt(input, i)
                /\ SameWithoutLine(i)

\* C10: a plain comment line read outside multi-line-script mode leaves the
\* locals of the scan unchanged, and if it holds no {{name}} reference the
\* output is that of the input without the line.
C10_CommentIsInertOutsideScript ==
    Done =>
        \A i \in 1..Len(input) :
            (IsPlainComment(input[i]) /\ ~LocalsAt(input, i).inRequestScript) =>
                /\ Step(LocalsAt(input, i), input[i]) = LocalsAt(input, i)
                /\ detectVariables(input[i]) = << >> => SameWithoutLine(i)

\* a comment holding ':' has been read after the method line and again inside
\* an open JSON body, and the request was written without a header
C10_Witness ==
    /\ Done
    /\ input = <<LnGetU, LnCommentColon, LnOpenBrace, LnCommentColon>>
    /\ Len(out.Items) = 1
    /\ out.Items[1].Request.Header = << >>
    /\ out.Items[1].Request.Body.Raw = << >>

----------------------------------------------------------------------------
(* SpecEnv: files whose lines reference variables in a URL, a header, a    *)
(* body and a comment and declare local variables, converted with a        *)
(* missing environment file, with one that has a "dev" environment and     *)
(* with one that has none                                                  *)

MaxEnvLines == 3

LnUseV == <<"X",":"," ","{","{","v","}","}">>
LnLocalW == <<"@","w"," ","="," ","2">>
LnBodyV == <<"{","\"","t","\"",":"," ","\"","{","{","v","}","}","\"","}">>

\* an http-client.env.json whose "dev" environment sets baseUrl and v
EnvDevV ==
    [err |-> FALSE, hasDev |-> TRUE,
     dev |-> [k \in {<<"b","a","s","e","U","r","l">>, <<"v">>} |->
                 IF k = <<"v">> THEN <<"9">> ELSE <<"h",".","i","o">>]]

\* an http-client.env.json without a "dev" environment
EnvNoDev == [err |-> FALSE, hasDev |-> FALSE, dev |-> EmptyMap]

EnvPool == {LnGetU, LnGetBase, LnUseV, LnCommentVar, LnLocalV, LnLocalW, LnBodyV}

InitEnv ==
    \/ InitWith(FilesUpTo(EnvPool, MaxEnvLines), {EnvMissing, EnvDevV, EnvNoDev})
    \/ InitAllKinds

SpecEnv == InitEnv /\ [][Next]_vars

\* the names referenced as {{name}} in one line
RefNamesOfLine(l) ==
    {SubSeq(l, p[1] + 2, p[2] - 1) :
        p \in {q \in (1..Len(l)) \X (1..Len(l)) :
                  /\ q[1] + 2 <= q[2] - 1
                  /\ MatchAt(l, q[1], VarOpen)
                  /\ MatchAt(l, q[2], VarClose)
                  /\ \A k \in (q[1] + 2)..(q[2] - 1) : IsWord(l[k])}}

\* the names referenced as {{name}} anywhere in the lines
RefNames(lines) == UNION {RefNamesOfLine(lines[i]) : i \in 1..Len(lines)}

\* the scanner can hold every line
NoLongLine(lines) == \A i \in 1..Len(lines) : lines[i] # LongLine

\* C11: when a readable input references a variable anywhere and the
\* environment cannot be loaded, the conversion ends in an error naming the
\* referenced variables, nothing is written and no line has been classified.
C11_MissingEnvWithVariablesFails ==
    (pc # "open" /\ readable /\ env.err /\ NoLongLine(input) /\ RefNames(input) # {}) =>
        /\ pc = "error"
        /\ out.status = "error"
        /\ Range(out.errVars) = RefNames(input)
        /\ out.Items = << >>
        /\ out.Variable = << >>
        /\ pos = 0
        /\ st = InitialLocals

\* a file whose only reference stands in a comment has failed, naming x
C11_Witness ==
    /\ pc = "error"
    /\ env = EnvMissing
    /\ input = <<LnGetU, LnCommentVar>>
    /\ out.errVars = <<<<"x">>>>

\* C12: when a readable input references no variable, a missing or invalid
\* environment file causes no error, and the items written are those of the
\* scan, which reads no environment.
C12_MissingEnvWithoutVariablesIsTolerated ==
    (readable /\ NoLongLine(input) /\ RefNames(input) = {}) =>
        /\ pc # "error"
        /\ Done => out.Items = CollectionItems(Converted(input))

\* a file without references has been converted without an environment file
C12_Witness ==
    /\ Done
    /\ env = EnvMissing
    /\ input = <<LnLocalV, LnGetU>>
    /\ Len(out.Items) = 1
    /\ out.Items[1].Request.Method = GET

-----------------------------------------------------------------------------
(* Lines that match no line kind, and lines the scanner cannot hold (C13)  *)

MaxScanLines == 3

ScanPool == {LnGetU, LnGetBare, LnHdrA, LnJunk, LnOpenBrace, LongLine}

InitScan == InitWith(FilesUpTo(ScanPool, MaxScanLines), {EnvMissing, EnvDev}) \/ InitAllKinds

SpecScan == InitScan /\ [][Next]_vars

\* C13: once the prescan has passed and the scan has begun, no line makes
\* the conversion fail: no step taken while scanning ends in the error state.
C13_NoLineAbortsConversion == [][pc = "scan" => pc' # "error"]_vars

\* the part of the statement the code keeps: a line of no kind, read outside
\* a body and outside a script, leaves the locals as they were
C13_UnmatchedLineIsSkipped ==
    [][(pc = "scan" /\ pc' = "scan" /\ pos' = pos + 1 /\ Line = LnJunk
           /\ ~st.startedJSON /\ ~st.inRequestScript) => st' = st]_vars

-----------------------------------------------------------------------------
(* The input path cannot be opened (C14)                                   *)

\* C14: when the input path cannot be opened the conversion returns an error
\* at its first step: no line is read, the locals stay as declared, no
\* variable is looked for and no document is written.
C14_UnreadableInputFailsBeforeParsing ==
    ~readable =>
        /\ pc \in {"open", "error"}
        /\ pos = 0
        /\ st = InitialLocals
        /\ out.Items = << >> /\ out.Variable = << >> /\ out.errVars = << >>
        /\ pc # "open" => out.status = "error"

C14_Witness == pc = "error" /\ ~readable /\ env = EnvDevV /\ out.status = "error"

-----------------------------------------------------------------------------
(* SpecItems: separators, groups and blocks with and without a method line *)
(* (C15, C19)                                                              *)

MaxItemLines == 4

ItemPool == {LnSep, LnGetU, LnPostU, LnHdrA, LnJsonOne, LnGroupG}

InitItems == InitWith(FilesUpTo(ItemPool, MaxItemLines), {EnvMissing, EnvDev}) \/ InitAllKinds

SpecItems == InitItems /\ [][Next]_vars

IsFolder(it) == it.Item # << >>

HasMethod(it) == it.Request.Method \in {GET, PUT, POST, DELETE, OPTIONS}

\* C15: every request of the written document, at top level or in a folder,
\* has a method, and a folder holds only requests; the document has no more
\* requests than the input has method lines, so that a block without a
\* method line (nothing, only headers, only a body) gives no item.
C15_NoItemWithoutMethod ==
    Done =>
        /\ \A i \in DOMAIN out.Items :
               IF IsFolder(out.Items[i])
               THEN \A j \in DOMAIN out.Items[i].Item :
                        /\ ~IsFolder(out.Items[i].Item[j])
                        /\ HasMethod(out.Items[i].Item[j])
               ELSE HasMethod(out.Items[i])
        /\ Len(Leaves(out.Items)) <= Len(MethodLinesOf(input))

C15_Witness ==
    /\ Done
    /\ input = <<LnSep, LnHdrA, LnSep, LnGetU>>
    /\ Len(out.Items) = 1
    /\ out.Items[1].Request.Method = GET

-----------------------------------------------------------------------------
(* The collection variable list (C16, C17, C18), under SpecEnv             *)

\* the names declared by the "@name = value" lines
LocalNames(lines) ==
    {localVariableRegex(TrimSpace(lines[i])).g1 :
        i \in {k \in 1..Len(lines) : localVariableRegex(TrimSpace(lines[k])).ok}}

\* the places <<line, column>> where {{name}} stands in the lines
RefPlaces(lines, name) ==
    {q \in UNION {{i} \X (1..Len(lines[i])) : i \in 1..Len(lines)} :
        MatchAt(lines[q[1]], q[2], VarOpen \o name \o VarClose)}

\* place a comes before place b in reading order
PlaceBefore(a, b) == a[1] < b[1] \/ (a[1] = b[1] /\ a[2] < b[2])

\* the first place where {{name}} stands
FirstPlace(lines, name) ==
    CHOOSE a \in RefPlaces(lines, name) :
        \A b \in RefPlaces(lines, name) : a = b \/ PlaceBefore(a, b)

\* C16: the variable list of the written document has each key once; its
\* keys are the names referenced as {{name}} and the names declared by
\* "@name = value" lines; the referenced names come first, in the order of
\* their first reference, and the declared names never referenced follow.
C16_VariableListKeys ==
    Done =>
        LET V == out.Variable
            n == Cardinality(RefNames(input))
        IN  /\ \A i, j \in DOMAIN V : i # j => V[i].Key # V[j].Key
            /\ {V[i].Key : i \in DOMAIN V} = RefNames(input) \cup LocalNames(input)
            /\ Len(V) >= n
            /\ \A i \in 1..n : V[i].Key \in RefNames(input)
            /\ \A i, j \in 1..n :
                   i < j => PlaceBefore(FirstPlace(input, V[i].Key),
                                        FirstPlace(input, V[j].Key))

C16_Witness ==
    /\ Done
    /\ input = <<LnUseV, LnLocalW, LnBodyV>>
    /\ Len(out.Variable) = 2
    /\ out.Variable[1].Key = <<"v">>
    /\ out.Variable[2].Key = <<"w">>

-----------------------------------------------------------------------------
(* SpecVars: names declared once, twice or never, referenced or not, and   *)
(* present in the environment or not (C17, C18)                            *)

MaxVarLines == 3

LnLocalV3 == <<"@","v"," ","=","3">>

VarPool == {LnGetU, LnGetBase, LnUseV, LnLocalV, LnLocalV3, LnLocalW}

InitVars ==
    \/ InitWith(FilesUpTo(VarPool, MaxVarLines), {EnvMissing, EnvDevV, EnvNoDev})
    \/ InitAllKinds

SpecVars == InitVars /\ [][Next]_vars

\* the lines that declare the name
DeclaringLines(lines, name) ==
    {i \in 1..Len(lines) :
        /\ localVariableRegex(TrimSpace(lines[i])).ok
        /\ localVariableRegex(TrimSpace(lines[i])).g1 = name}

\* the value text of the last line that declares the name
DeclaredValue(lines, name) ==
    LET last == CHOOSE i \in DeclaringLines(lines, name) :
                    \A k \in DeclaringLines(lines, name) : k <= i
    IN  TrimSpace(After(lines[last], EqTok))

\* the environment mapping holds a value for the name in environment "dev"
InDev(e, name) == ~e.err /\ e.hasDev /\ name \in DOMAIN e.dev

\* C17: the value of every variable of the written document is that of the
\* last "@name = value" line for its name if there is one, else the value of
\* the name in environment "dev" if the mapping has one, else empty.
C17_ValueByPriority ==
    Done =>
        \A i \in DOMAIN out.Variable :
            LET name == out.Variable[i].Key
            IN  out.Variable[i].Value =
                    IF DeclaringLines(input, name) # {} THEN DeclaredValue(input, name)
                    ELSE IF InDev(env, name) THEN env.dev[name]
                    ELSE << >>

C17_Witness ==
    /\ Done
    /\ env = EnvDevV
    /\ input = <<LnLocalV, LnUseV, LnLocalV3>>
    /\ out.Variable = <<[Key |-> <<"v">>, Value |-> <<"3">>, Type |-> "string"]>>

\* C18: two conversions of the same lines with the same environment mapping
\* write the same items in the same order and the same variable list in the
\* same order: whatever documents the assembler can write from the state the
\* scan ends in agree on both.
C18_ConversionIsDeterministic ==
    pc = "assemble" =>
        \A d1, d2 \in Documents(st, env) :
            d1.Items = d2.Items /\ d1.Variable = d2.Variable

-----------------------------------------------------------------------------
(* SpecGroups: group declarations, method lines and separators (C19)       *)

MaxGroupLines == 5

LnGroupH == <<"#"," ","@","g","r","o","u","p","_","n","a","m","e"," "," ","H"," ">>

GroupPool == {LnSep, LnGetU, LnGroupG, LnGroupH}

InitGroups == InitWith(FilesUpTo(GroupPool, MaxGroupLines), {EnvMissing, EnvDev}) \/ InitAllKinds

SpecGroups == InitGroups /\ [][Next]_vars

\* the file holds only group declarations, method lines and separators
IsGroupFile(lines) == \A i \in 1..Len(lines) : lines[i] \in GroupPool

\* the elements of a set of numbers in ascending order
RECURSIVE Ascending(_)
Ascending(S) == IF S = {} THEN << >> ELSE <<Min(S)>> \o Ascending(S \ {Min(S)})

\* the places where a request is sealed: the separator lines and the end of
\* input (place Len + 1) that have a method line since the separator before
SealPlaces(lines) ==
    {p \in 1..(Len(lines) + 1) :
        /\ p = Len(lines) + 1 \/ IsSeparatorLine(lines[p])
        /\ \E m \in 1..(p - 1) :
               /\ IsMethodLine(lines[m])
               /\ \A k \in m..(p - 1) : ~IsSeparatorLine(lines[k])}

\* the group declaration in force at place p: the last one before it (0 when
\* there is none)
GroupAt(lines, p) ==
    LET G == {g \in 1..(p - 1) : IsGroupLine(lines[g])}
    IN  IF G = {} THEN 0 ELSE CHOOSE g \in G : \A h \in G : h <= g

\* the seal places of the group declared on line g, in order
SealsOf(lines, g) == Ascending({p \in SealPlaces(lines) : GroupAt(lines, p) = g})

\* the group declarations that hold a sealed request, in order
FilledGroups(lines) ==
    Ascending({g \in 1..Len(lines) : IsGroupLine(lines[g]) /\ SealsOf(lines, g) # << >>})

\* the name given to the request sealed at place p: its rank among the seals
SealName(lines, p) ==
    RequestDash \o Itoa(Cardinality({q \in SealPlaces(lines) : q <= p}))

\* the name a group line declares
DeclaredGroup(raw) == TrimSpace(After(raw, <<"_","n","a","m","e">>))

\* C19: in a file of group declarations, method lines and separators, when a
\* declared group holds a sealed request the items are one folder per
\* declaration that holds a request, in declaration order, named as declared,
\* without a request of its own and holding the requests sealed under that
\* declaration in seal order; otherwise the items are the sealed requests.
C19_FoldersFollowGroups ==
    (Done /\ IsGroupFile(input)) =>
        LET F == FilledGroups(input)
        IN  IF F # << >>
            THEN /\ Len(out.Items) = Len(F)
                 /\ \A i \in DOMAIN F :
                        LET fold == out.Items[i]
                            S    == SealsOf(input, F[i])
                        IN  /\ fold.Name = DeclaredGroup(input[F[i]])
                            /\ fold.Request = EmptyRequest
                            /\ Len(fold.Item) = Len(S)
                            /\ \A j \in DOMAIN S :
                                   /\ fold.Item[j].Name = SealName(input, S[j])
                                   /\ fold.Item[j].Request.Method = GET
                                   /\ fold.Item[j].Item = << >>
            ELSE LET S == Ascending(SealPlaces(input))
                 IN  /\ Len(out.Items) = Len(S)
                     /\ \A j \in DOMAIN S :
                            /\ out.Items[j].Name = SealName(input, S[j])
                            /\ out.Items[j].Request.Method = GET
                            /\ out.Items[j].Item = << >>

C19_Witness ==
    /\ Done
    /\ input = <<LnGroupG, LnGetU, LnSep, LnGroupH, LnGetU>>
    /\ Len(out.Items) = 2
    /\ out.Items[1].Name = <<"G">>
    /\ out.Items[2].Name = <<"H">>
    /\ Len(out.Items[2].Item) = 1

-----------------------------------------------------------------------------
(* SpecNames: separators with and without trailing text, name annotations  *)
(* and method lines (C20)                                                  *)

MaxNameLines == 4

NamePool == {LnSep, LnSepNamed, LnGetU, LnNameN}

InitNames == InitWith(FilesUpTo(NamePool, MaxNameLines), {EnvMissing, EnvDev}) \/ InitAllKinds

SpecNames == InitNames /\ [][Next]_vars

IsNameFile(lines) == \A i \in 1..Len(lines) : lines[i] \in NamePool

IsNameLine(raw) == nameRegex(TrimSpace(raw)).ok

\* the separator line that opens the block sealed at place p (0 when the
\* block is the first of a file that starts without a separator)
OpeningSeparator(lines, p) ==
    LET S == {s \in 1..(p - 1) : IsSeparatorLine(lines[s])}
    IN  IF S = {} THEN 0 ELSE CHOOSE s \in S : \A t \in S : t <= s

\* the text a separator line carries after "###", trimmed
TrailingText(raw) == TrimSpace(After(TrimSpace(raw), SepTok))

\* C20: in a flat file, a request sealed in a block whose opening separator
\* carries trailing text, and that has no name annotation, is named by that
\* text.
C20_SeparatorTextNamesRequest ==
    (Done /\ IsNameFile(input)) =>
        LET S == Ascending(SealPlaces(input))
        IN  /\ Len(out.Items) = Len(S)
            /\ \A j \in DOMAIN S :
                   LET s == OpeningSeparator(input, S[j])
                   IN  (/\ s # 0
                        /\ TrailingText(input[s]) # << >>
                        /\ \A k \in s..(S[j] - 1) : ~IsNameLine(input[k]))
                           => out.Items[j].Name = TrailingText(input[s])

-----------------------------------------------------------------------------
(* Request names (C21, C22), under SpecNames                               *)

\* the first seal place after line a (0 when nothing is sealed after it)
NextSeal(lines, a) ==
    LET P == {p \in SealPlaces(lines) : p > a}
    IN  IF P = {} THEN 0 ELSE Min(P)

\* the rank of seal place p among the seal places
SealRank(lines, p) == Cardinality({q \in SealPlaces(lines) : q <= p})

\* the name annotations that stand before seal place p and after the seal
\* place before it
AnnotationsFor(lines, p) ==
    {a \in 1..(p - 1) : IsNameLine(lines[a]) /\ NextSeal(lines, a) = p}

\* C21: in a flat file every name annotation names the next request sealed
\* after it, wherever separators stand in between, and a request sealed with
\* no annotation since the seal before it does not carry an annotated name.
C21_AnnotationNamesNextSealed ==
    (Done /\ IsNameFile(input)) =>
        /\ Len(out.Items) = Cardinality(SealPlaces(input))
        /\ \A p \in SealPlaces(input) :
               LET A    == AnnotationsFor(input, p)
                   name == out.Items[SealRank(input, p)].Name
               IN  IF A = {}
                   THEN \A a \in 1..Len(input) :
                            IsNameLine(input[a]) => name # nameRegex(TrimSpace(input[a])).g1
                   ELSE name = nameRegex(TrimSpace(input[CHOOSE a \in A : \A b \in A : b <= a])).g1

\* the items of the document that carry no annotated name
Unnamed(items, lines) ==
    {i \in DOMAIN items :
        \A a \in 1..Len(lines) :
            IsNameLine(lines[a]) => items[i].Name # nameRegex(TrimSpace(lines[a])).g1}

\* C22: in a flat file the requests written without an annotated name are
\* named request-1, request-2, ... in seal order, without gap or repeat:
\* the k-th of them is request-k, whatever named requests and separators
\* that seal nothing stand in between.
C22_GeneratedNamesAreSequential ==
    (Done /\ IsNameFile(input)) =>
        /\ Len(out.Items) = Cardinality(SealPlaces(input))
        /\ \A i \in Unnamed(out.Items, input) :
               out.Items[i].Name =
                   RequestDash \o Itoa(Cardinality({j \in Unnamed(out.Items, input) : j <= i}))

C22_Witness ==
    /\ Done
    /\ input = <<LnNameN, LnGetU, LnSep, LnGetU>>
    /\ Len(out.Items) = 2
    /\ out.Items[1].Name = <<"n","1">>
    /\ out.Items[2].Name = RequestDash \o <<"1">>

-----------------------------------------------------------------------------
(* Lines read while a JSON body is open (C23, C26, C27), under SpecBody    *)

\* the line reaches the header and body cases of the switch: it is not
\* blank, no comment or annotation, no declaration, no script start, no
\* method line and does not begin with '{'
ReachesBodyStage(raw) ==
    LET l == TrimSpace(raw)
    IN  /\ l # << >>
        /\ ~HasPrefix(l, HashTok)
        /\ ~HasPrefix(l, DescTok)
        /\ ~HasPrefix(l, AtTok)
        /\ ~HasPrefix(l, LtTok)
        /\ ~IsMethodLine(raw)
        /\ ~HasPrefix(l, LBrace)

\* C23: while a JSON body is open no line is taken as a header: a line read
\* in that mode never adds to the header list, and a line holding ':' that
\* reaches the header and body cases is appended, followed by a line break,
\* to the body text collected so far, the body staying open.
C23_NoHeaderWhileBodyOpen ==
    [][(pc = "scan" /\ pc' = "scan" /\ pos' = pos + 1 /\ st.startedJSON) =>
          /\ st'.headers \in {st.headers, << >>}
          /\ (/\ ~st.inRequestScript
              /\ ReachesBodyStage(input[pos + 1])
              /\ Contains(input[pos + 1], Colon)) =>
                 /\ st'.headers = st.headers
                 /\ st'.data = st.data \o TrimSpace(input[pos + 1]) \o NL
                 /\ st'.startedJSON]_vars

C23_Witness ==
    /\ pc = "scan"
    /\ input = <<LnPostU, LnHdrA, LnOpenBrace, LnHdrA>>
    /\ pos = 4
    /\ st.startedJSON
    /\ Len(st.headers) = 1
    /\ st.data = LnOpenBrace \o NL \o LnHdrA \o NL

-----------------------------------------------------------------------------
(* SpecScript: lines read while a multi-line script is open (C24, C25)     *)

MaxScriptLines == 4

LnSetId ==
    <<"r","e","q","u","e","s","t",".","v","a","r","i","a","b","l","e","s",".","s","e","t",
      "(","\"","i","d","\"",","," ","\"","7","\"",")">>

ScriptPool == {LnScriptOpen, LnSetId, LnScriptBody, LnGetU, LnOpenBrace, LnScriptClose}

InitScript == InitWith(FilesUpTo(ScriptPool, MaxScriptLines), {EnvDev}) \/ InitAllKinds

SpecScript == InitScript /\ [][Next]_vars

\* the line reaches the script cases of the switch: it is not blank, no
\* annotation, description or declaration and no script start
ReachesScriptStage(raw) ==
    LET l == TrimSpace(raw)
    IN  /\ l # << >>
        /\ ~IsGroupLine(raw)
        /\ ~IsNameLine(raw)
        /\ ~HasPrefix(l, DescTok)
        /\ ~HasPrefix(l, AtTok)
        /\ ~IsScriptStartLine(raw)

\* C24: while a multi-line script is open, a line that reaches the script
\* cases changes nothing but the per-request variable table, which gains the
\* variable a setter call in the line sets, and the script flag, which is
\* cleared exactly by a line holding the close token: method, URL, headers,
\* body and body text stay as they were.
C24_ScriptLinesAreNotFolded ==
    [][(/\ pc = "scan" /\ pc' = "scan" /\ pos' = pos + 1
        /\ st.inRequestScript
        /\ ReachesScriptStage(input[pos + 1])) =>
          /\ st' = [st EXCEPT !.requestVariables = st'.requestVariables,
                              !.inRequestScript = st'.inRequestScript]
          /\ st'.inRequestScript = ~Contains(input[pos + 1], ScriptClose)
          /\ st'.requestVariables =
                 IF TrimSpace(input[pos + 1]) = LnSetId
                 THEN MapSet(st.requestVariables, <<"i","d">>, <<"7">>)
                 ELSE st.requestVariables]_vars

C24_Witness ==
    /\ pc = "scan"
    /\ input = <<LnScriptOpen, LnGetU, LnScriptBody, LnOpenBrace>>
    /\ pos = 4
    /\ st.inRequestScript
    /\ st.method = << >> /\ st.headers = << >> /\ st.data = << >> /\ ~st.startedJSON

-----------------------------------------------------------------------------
(* SpecPath: a URL on the base-URL variable with a path variable, scripts  *)
(* that set it and declarations of it (C25)                                *)

MaxPathLines == 4

LnLocalId == <<"@","i","d"," ","="," ","5">>

PathPool == {LnGetBase, LnScriptOne, LnLocalId, LnSep}

InitPath == InitWith(FilesUpTo(PathPool, MaxPathLines), {EnvDev}) \/ InitAllKinds

SpecPath == InitPath /\ [][Next]_vars

IsPathFile(lines) == \A i \in 1..Len(lines) : lines[i] \in PathPool

\* the last method line of the block sealed at place p
MethodLineOf(lines, p) ==
    LET M == {m \in (OpeningSeparator(lines, p) + 1)..(p - 1) : IsMethodLine(lines[m])}
    IN  CHOOSE m \in M : \A k \in M : k <= m

\* a script of the block sealed at place p sets id before the block's
\* method line is read
ScriptSetsId(lines, p) ==
    \E k \in (OpeningSeparator(lines, p) + 1)..(MethodLineOf(lines, p) - 1) :
        lines[k] = LnScriptOne

\* the file declares @id
FileDeclaresId(lines) == \E k \in 1..Len(lines) : lines[k] = LnLocalId

\* C25: a request whose raw URL is {{baseUrl}}/u/{{id}} has the host
\* {{baseUrl}} alone, the path u, :id and one path variable id, whose value
\* is the one a script of its block sets (7), else the one the file declares
\* for id (5), else empty.
C25_PathVariableByPriority ==
    (Done /\ IsPathFile(input)) =>
        /\ Len(out.Items) = Cardinality(SealPlaces(input))
        /\ \A p \in SealPlaces(input) :
               LET u == out.Items[SealRank(input, p)].Request.URL
               IN  /\ u.Host = <<BaseUrl1>>
                   /\ u.Path = << <<"u">>, <<":","i","d">> >>
                   /\ u.Variable =
                          <<[Key |-> <<"i","d">>,
                             Value |-> IF ScriptSetsId(input, p) THEN <<"7">>
                                       ELSE IF FileDeclaresId(input) THEN <<"5">>
                                       ELSE << >>,
                             Type |-> "string"]>>

\* C26: every request of the written document has body mode "raw" exactly
\* when its raw body text is not empty.
C26_RawModeIffBodyText ==
    Done =>
        \A i \in DOMAIN Leaves(out.Items) :
            LET b == Leaves(out.Items)[i].Request.Body
            IN  (b.Mode = "raw") <=> (b.Raw # << >>)

\* C27: a line that begins with '{' and is read while a JSON body is open is
\* a continuation: it is appended, followed by a line break, to the body
\* text collected so far, the raw body is not replaced and the body stays
\* open.
C27_BraceLineContinuesOpenBody ==
    [][(/\ pc = "scan" /\ pc' = "scan" /\ pos' = pos + 1
        /\ st.startedJSON /\ ~st.inRequestScript
        /\ HasPrefix(TrimSpace(input[pos + 1]), LBrace)) =>
          /\ st'.data = st.data \o TrimSpace(input[pos + 1]) \o NL
          /\ st'.body.Raw = st.body.Raw
          /\ st'.startedJSON]_vars

-----------------------------------------------------------------------------
(* SpecReset: blocks that fill every per-request local, and separators     *)
(* (C28)                                                                   *)

MaxResetLines == 3

ResetPool == {LnSep, LnGetApi, LnHdrA, LnOpenBrace, LnNameN, LnDesc, LnScriptOne, LnLocalV}

InitReset == InitWith(FilesUpTo(ResetPool, MaxResetLines), {EnvMissing, EnvDev}) \/ InitAllKinds

SpecReset == InitReset /\ [][Next]_vars

\* sequence a is the beginning of sequence b
IsPrefix(a, b) == Len(a) <= Len(b) /\ SubSeq(b, 1, Len(a)) = a

\* C28: after a line handled as a separator every per-request local has its
\* initial value (method, headers, body, body text, URL, query list, JSON
\* flag, pending name and description, per-request variables, script flag);
\* the local-variable table is unchanged and the requests sealed before are
\* still there, in place.
C28_SeparatorResetsRequestState ==
    [][(/\ pc = "scan" /\ pc' = "scan" /\ pos' = pos + 1
        /\ IsSeparatorLine(input[pos + 1])
        /\ ~st.inRequestScript) =>
          /\ st'.method = << >>
          /\ st'.headers = << >>
          /\ st'.body = EmptyBody
          /\ st'.data = << >>
          /\ st'.url = EmptyURL
          /\ st'.query = << >>
          /\ ~st'.startedJSON
          /\ st'.currentRequestName = << >>
          /\ st'.currentRequestDescription = << >>
          /\ st'.requestVariables = EmptyMap
          /\ ~st'.inRequestScript
          /\ st'.localVariables = st.localVariables
          /\ st'.allVariables = st.allVariables
          /\ IsPrefix(st.allItems, st'.allItems)
          /\ st'.groups = st.groups
          /\ IsPrefix(st.currentGroup.Items, st'.currentGroup.Items)]_vars

C28_Witness ==
    /\ pc = "scan"
    /\ input = <<LnGetApi, LnOpenBrace, LnSep>>
    /\ pos = 3
    /\ Len(st.allItems) = 1
    /\ st.allItems[1].Request.URL.Query # << >>
    /\ st.allItems[1].Request.Body.Mode = "raw"
    /\ st.query = << >>
    /\ st.body = EmptyBody
    /\ st.data = << >>

-----------------------------------------------------------------------------
(* Raw URLs without a scheme (C29), under SpecURL                          *)

\* C29: for a raw URL with no "://" and no base-URL variable the host is the
\* whole raw URL split on '.', the path is empty and the protocol is empty.
C29_NoSchemeUrlIsHostOnly ==
    Done =>
        \A k \in 1..Len(Leaves(out.Items)) :
            LET url == Leaves(out.Items)[k].Request.URL
            IN  (~Contains(url.Raw, SchemeSep) /\ ~HasBaseUrl(url.Raw)) =>
                    /\ url.Host = Split(url.Raw, Dot)
                    /\ url.Path = << >>
                    /\ url.Protocol = << >>

-----------------------------------------------------------------------------
(* Sealed requests and the written document (C30), under SpecGroups        *)

\* C30: in a file of group declarations, method lines and separators every
\* sealed request is in the written document exactly once, at top level or
\* in a folder: the requests of the document are as many as the seal places
\* and each seal's request, told by its name, is among them.
C30_NoSealedRequestIsLost ==
    (Done /\ IsGroupFile(input)) =>
        /\ Len(Leaves(out.Items)) = Cardinality(SealPlaces(input))
        /\ \A p \in SealPlaces(input) :
               Cardinality({k \in DOMAIN Leaves(out.Items) :
                               Leaves(out.Items)[k].Name = SealName(input, p)}) = 1

-----------------------------------------------------------------------------
(* Two method lines in one block (C31), under SpecURL                      *)

\* the URL the converter writes for a file that is this one method line
UrlOfLineAlone(method, raw) ==
    CollectionItems(Converted(<<method \o <<" ">> \o raw>>))[1].Request.URL

\* C31: protocol, host, path and query list of every request of the written
\* document are those of its final raw URL alone: nothing of an earlier
\* method line of the same block remains.
C31_UrlIsOfFinalMethodLine ==
    Done =>
        \A k \in 1..Len(Leaves(out.Items)) :
            LET req == Leaves(out.Items)[k].Request
                own == UrlOfLineAlone(req.Method, req.URL.Raw)
            IN  /\ req.URL.Protocol = own.Protocol
                /\ req.URL.Host = own.Host
                /\ req.URL.Path = own.Path
                /\ req.URL.Query = own.Query

-----------------------------------------------------------------------------
(* Separator lines read in script mode and in body mode (C32), under       *)
(* SpecEnd                                                                 *)

\* the number of requests sealed so far
SealedCount(s) == Len(s.allItems) + Len(s.currentGroup.Items)

\* C32: a line beginning with ### is a separator in every mode: also inside
\* an open script or an open body it seals the pending request that has a
\* method and a URL and leaves the per-request state reset, both modes off.
C32_SeparatorInEveryMode ==
    [][(/\ pc = "scan" /\ pc' = "scan" /\ pos' = pos + 1
        /\ IsSeparatorLine(input[pos + 1])) =>
          /\ st'.method = << >>
          /\ st'.url = EmptyURL
          /\ st'.headers = << >>
          /\ ~st'.inRequestScript
          /\ ~st'.startedJSON
          /\ SealedCount(st') = SealedCount(st) + (IF st.method # << >> THEN 1 ELSE 0)]_vars

-----------------------------------------------------------------------------
(* The group a request is placed in (C33), under SpecGroups                *)

\* C33: in a file of group declarations, method lines and separators every
\* request written in a folder is in the folder of the group declared last
\* before the request's method line: a group declared while the request is
\* pending does not take it.
C33_RequestStaysInGroupOfItsMethodLine ==
    (Done /\ IsGroupFile(input)) =>
        \A i \in DOMAIN out.Items :
            IsFolder(out.Items[i]) =>
                \A j \in DOMAIN out.Items[i].Item :
                    \E p \in SealPlaces(input) :
                        /\ SealName(input, p) = out.Items[i].Item[j].Name
                        /\ LET g == GroupAt(input, MethodLineOf(input, p))
                           IN  /\ g # 0
                               /\ DeclaredGroup(input[g]) = out.Items[i].Name

====
